---- MODULE Spec2Model ----
(***************************************************************************)
(* The assembler interpreter of src/src/lib.rs: Program::parse turns the   *)
(* source text into instructions and a label table, Interpreter::run       *)
(* executes them on registers, a call stack, two flags and an output       *)
(* buffer.  Strings are TLA+ strings, read character by character with     *)
(* SubSeq; instruction indices are 0-based as in the code, so the          *)
(* instruction at index i is instructions[i + 1].                          *)
(***************************************************************************)
EXTENDS Integers, Sequences, FiniteSets

(***************************************************************************)
(* Bounds of the model.                                                    *)
(*   IntBits  - the register type is i64; TLC's integers are 32 bits wide, *)
(*              so the model keeps the two's-complement behaviour of the   *)
(*              type at IntBits bits and states every limit through        *)
(*              I64Min and I64Max.                                         *)
(*   MaxLines - the longest program drawn from LinePool.                   *)
(***************************************************************************)
IntBits == 15
MaxLines == 3

I64Max == 2^(IntBits - 1) - 1
I64Min == -(2^(IntBits - 1))

(***************************************************************************)
(* String helpers: the std operations the parser and the interpreter use.  *)
(***************************************************************************)
At(s, i) == SubSeq(s, i, i)

\* char::is_whitespace on ASCII: space and U+0009 to U+000D, the vertical
\* tab U+000B written as the character itself.  The sources of the model
\* are ASCII text.
WhiteSpace == {" ", "\t", "\n", "", "\f", "\r"}

Digits == {"0", "1", "2", "3", "4", "5", "6", "7", "8", "9"}

DigitValue(c) ==
    CASE c = "0" -> 0 [] c = "1" -> 1 [] c = "2" -> 2 [] c = "3" -> 3
      [] c = "4" -> 4 [] c = "5" -> 5 [] c = "6" -> 6 [] c = "7" -> 7
      [] c = "8" -> 8 [] c = "9" -> 9

DigitChar(d) == At("0123456789", d + 1)

SetMin(S) == CHOOSE x \in S : \A y \in S : x <= y

SetMax(S) == CHOOSE x \in S : \A y \in S : y <= x

\* str::find(c): the 1-based position of the first c, 0 when there is none.
Find(s, c) ==
    LET hits == {i \in 1..Len(s) : At(s, i) = c}
    IN  IF hits = {} THEN 0 ELSE SetMin(hits)

\* str::contains(c)
Contains(s, c) == Find(s, c) # 0

\* str::ends_with(c) for a one-character pattern
EndsWith(s, c) == Len(s) > 0 /\ At(s, Len(s)) = c

\* str::trim(): Unicode white space removed at both ends.
Trim(s) ==
    LET keep == {i \in 1..Len(s) : At(s, i) \notin WhiteSpace}
    IN  IF keep = {} THEN "" ELSE SubSeq(s, SetMin(keep), SetMax(keep))

\* str::trim_matches(c): every leading and trailing c removed.
TrimMatches(s, c) ==
    LET keep == {i \in 1..Len(s) : At(s, i) # c}
    IN  IF keep = {} THEN "" ELSE SubSeq(s, SetMin(keep), SetMax(keep))

\* str::split(c): the pieces between the separators, empty pieces included;
\* a string without separator is one piece.
RECURSIVE Split(_, _)
Split(s, c) ==
    LET p == Find(s, c)
    IN  IF p = 0 THEN <<s>>
        ELSE <<SubSeq(s, 1, p - 1)>> \o Split(SubSeq(s, p + 1, Len(s)), c)

\* The 1-based position of the first occurrence of pat (non-empty) in s, or 0.
FindStr(s, pat) ==
    LET hits == {i \in 1..(Len(s) - Len(pat) + 1) :
                    SubSeq(s, i, i + Len(pat) - 1) = pat}
    IN  IF hits = {} THEN 0 ELSE SetMin(hits)

\* str::replace(pat, ""): every non-overlapping occurrence of pat, left to
\* right, is removed.
RECURSIVE RemoveAll(_, _)
RemoveAll(s, pat) ==
    LET p == IF pat = "" THEN 0 ELSE FindStr(s, pat)
    IN  IF p = 0 THEN s
        ELSE SubSeq(s, 1, p - 1)
                 \o RemoveAll(SubSeq(s, p + Len(pat), Len(s)), pat)

\* str::split_whitespace().next(): the first run of characters that are
\* not white space, "" when there is none.
FirstWord(s) ==
    LET word == {i \in 1..Len(s) : At(s, i) \notin WhiteSpace}
    IN  IF word = {} THEN ""
        ELSE LET ws == {i \in SetMin(word)..Len(s) : At(s, i) \in WhiteSpace}
             IN  SubSeq(s, SetMin(word), IF ws = {} THEN Len(s) ELSE SetMin(ws) - 1)

\* str::lines(): split at "\n", a "\r" before the "\n" dropped, and no
\* empty last line after a final "\n".
RECURSIVE Lines(_)
Lines(s) ==
    IF s = "" THEN <<>>
    ELSE LET p == Find(s, "\n")
             raw == IF p = 0 THEN s ELSE SubSeq(s, 1, p - 1)
             line == IF p # 0 /\ EndsWith(raw, "\r")
                     THEN SubSeq(raw, 1, Len(raw) - 1) ELSE raw
         IN  IF p = 0 THEN <<line>>
             ELSE <<line>> \o Lines(SubSeq(s, p + 1, Len(s)))

(***************************************************************************)
(* i64: parsing, rendering and arithmetic at the model's width.            *)
(***************************************************************************)
RECURSIVE DigitsValue(_, _)
\* The value of a digit string, read left to right from the accumulator
\* acc; -1 as soon as it leaves the range 0 .. I64Max + 1.
DigitsValue(s, acc) ==
    IF s = "" THEN acc
    ELSE LET next == acc * 10 + DigitValue(At(s, 1))
         IN  IF next > I64Max + 1 THEN -1
             ELSE DigitsValue(SubSeq(s, 2, Len(s)), next)

\* str::parse::<i64>(): an optional sign, then one or more ASCII digits and
\* nothing else, the value within the type's range.  [ok, val].
ParseI64(s) ==
    LET signed == Len(s) > 1 /\ At(s, 1) \in {"+", "-"}
        body == IF signed THEN SubSeq(s, 2, Len(s)) ELSE s
        wellFormed == body # "" /\ \A i \in 1..Len(body) : At(body, i) \in Digits
        mag == IF wellFormed THEN DigitsValue(body, 0) ELSE -1
        val == IF signed /\ At(s, 1) = "-" THEN -mag ELSE mag
    IN  IF wellFormed /\ mag >= 0 /\ val >= I64Min /\ val <= I64Max
        THEN [ok |-> TRUE, val |-> val]
        ELSE [ok |-> FALSE, val |-> 0]

RECURSIVE NatToString(_)
NatToString(n) ==
    IF n < 10 THEN DigitChar(n)
    ELSE NatToString(n \div 10) \o DigitChar(n % 10)

\* i64::to_string(): decimal digits, "-" before a negative value.
I64ToString(v) == IF v < 0 THEN "-" \o NatToString(-v) ELSE NatToString(v)

\* Two's-complement wrap-around into I64Min .. I64Max.
Wrap(x) == ((x - I64Min) % (2^IntBits)) + I64Min

InRange(x) == x >= I64Min /\ x <= I64Max

Abs(x) == IF x < 0 THEN -x ELSE x


\* Mutant of TruncDiv: the quotient rounded down instead of toward zero.
TruncDiv_Floor(a, b) == a \div b

\* The division of i64 for a non-zero divisor and a representable quotient.
TruncDiv(a, b) ==
    IF (a < 0) = (b < 0) THEN Abs(a) \div Abs(b) ELSE -(Abs(a) \div Abs(b))

(***************************************************************************)
(* The parser: Instruction::from and Program::parse.                       *)
(***************************************************************************)
Instr(op, args) == [op |-> op, args |-> args]

TwoOperand == {"mov", "add", "sub", "mul", "div", "cmp"}

OneOperand == {"inc", "dec", "call", "jmp", "jne", "je", "jge", "jg", "jle", "jl"}

NoOperand == {"msg", "ret", "end"}

\* The enum variant each mnemonic of the match maps to.
Variant(m) ==
    CASE m = "mov" -> "Mov" [] m = "inc" -> "Inc" [] m = "dec" -> "Dec"
      [] m = "add" -> "Add" [] m = "sub" -> "Sub" [] m = "mul" -> "Mul"
      [] m = "div" -> "Div" [] m = "call" -> "Call" [] m = "cmp" -> "Cmp"
      [] m = "jmp" -> "Jmp" [] m = "jne" -> "Jne" [] m = "je" -> "Je"
      [] m = "jge" -> "Jge" [] m = "jg" -> "Jg" [] m = "jle" -> "Jle"
      [] m = "jl" -> "Jl" [] m = "msg" -> "Msg" [] m = "ret" -> "Ret"
      [] m = "end" -> "End"

\* raw_params: the line with every occurrence of its first word removed.
RawParams(raw) == RemoveAll(raw, FirstWord(raw))

\* params: raw_params trimmed, split at each comma, every piece trimmed.
Params(raw) ==
    LET pieces == Split(Trim(RawParams(raw)), ",")
    IN  [i \in 1..Len(pieces) |-> Trim(pieces[i])]


\* Mutant of FromPanics: a first word that is neither a mnemonic nor a label
\* is rejected too.
FromPanics_RejectsUnknown(raw) ==
    /\ raw # ""
    /\ \/ FirstWord(raw) \in TwoOperand /\ Len(Params(raw)) < 2
       \/ /\ FirstWord(raw) \notin TwoOperand \cup OneOperand \cup NoOperand
          /\ ~EndsWith(FirstWord(raw), ":")

\* Whether Instruction::from panics on raw: params[0] or params[1] is
\* indexed by the match arm and params is too short.
FromPanics(raw) ==
    /\ raw # ""
    /\ \/ FirstWord(raw) = ""
       \/ FirstWord(raw) \in TwoOperand /\ Len(Params(raw)) < 2

\* Instruction::from on a line it does not panic on.
InstructionFrom(raw) ==
    IF raw = "" THEN Instr("Nop", <<>>)
    ELSE LET word == FirstWord(raw)
             params == Params(raw)
         IN  IF word \in TwoOperand
                 THEN Instr(Variant(word), <<params[1], params[2]>>)
             ELSE IF word \in OneOperand
                 THEN Instr(Variant(word), <<params[1]>>)
             ELSE IF word = "msg" THEN Instr("Msg", params)
             ELSE IF word \in NoOperand THEN Instr(Variant(word), <<>>)
             ELSE IF EndsWith(word, ":")
                 THEN Instr("Function", <<TrimMatches(word, ":")>>)
             ELSE Instr("Nop", <<>>)

\* The closure of Program::parse: the comment removed, the rest trimmed.
CleanLine(x) ==
    LET com_pos == Find(x, ";")
    IN  Trim(IF com_pos # 0 THEN SubSeq(x, 1, com_pos - 1) ELSE x)

EmptyMap == [k \in {} |-> 0]

\* HashMap::insert
Insert(map, k, v) == [x \in DOMAIN map \cup {k} |-> IF x = k THEN v ELSE map[x]]


\* Mutant of FindFunctions: the first definition of a name is kept.
RECURSIVE FindFunctions_FirstWins(_, _, _)
FindFunctions_FirstWins(instrs, index, table) ==
    IF index >= Len(instrs) THEN table
    ELSE LET ins == instrs[index + 1]
         IN  FindFunctions_FirstWins(instrs, index + 1,
                 IF ins.op = "Function" /\ ins.args[1] \notin DOMAIN table
                 THEN Insert(table, ins.args[1], index + 1)
                 ELSE table)

\* The "Find functions" loop of Program::parse, from instruction index on.
RECURSIVE FindFunctions(_, _, _)
FindFunctions(instrs, index, table) ==
    IF index >= Len(instrs) THEN table
    ELSE LET ins == instrs[index + 1]
         IN  FindFunctions(instrs, index + 1,
                 IF ins.op = "Function"
                 THEN Insert(table, ins.args[1], index + 1)
                 ELSE table)

(***************************************************************************)
(* The inputs: the programs of the repository's tests and of main(), the   *)
(* edge cases of each instruction, and the programs of at most MaxLines    *)
(* lines drawn from LinePool.  A program that recurses without end grows    *)
(* the call stack until memory is exhausted; the inputs are programs whose  *)
(* call stack stays bounded.                                                *)
(***************************************************************************)
RECURSIVE JoinLines(_)
JoinLines(ls) ==
    IF Len(ls) = 0 THEN ""
    ELSE IF Len(ls) = 1 THEN ls[1]
    ELSE ls[1] \o "\n" \o JoinLines(Tail(ls))

LinePool ==
    {"f:", "call f", "ret", "end", "msg 'x', a", "mov a, 1", "cmp a, 1",
     "jne f", "je g"}

\* No call of f comes after a definition of f: each call then goes forward
\* to where no call is, and the program does not recurse.
CallsForward(ls) ==
    \A i, j \in 1..Len(ls) : ~(i < j /\ ls[i] = "f:" /\ ls[j] = "call f")

PoolSources ==
    {JoinLines(ls) :
        ls \in {l \in UNION {[1..n -> LinePool] : n \in 1..MaxLines} : CallsForward(l)}}

TestSources ==
    {"\n; My first program\nmov  a, 5\ninc  a\ncall function\nmsg  '(5+1)/2 = ', a    ; output message\nend\n\nfunction:\n    div  a, 2\n    ret\n",
     "\nmov   a, 5\nmov   b, a\nmov   c, a\ncall  proc_fact\ncall  print\nend\n\nproc_fact:\n    dec   b\n    mul   c, b\n    cmp   b, 1\n    jne   proc_fact\n    ret\n\nprint:\n    msg   a, '! = ', c ; output text\n    ret\n",
     "\ncall  func1\ncall  print\nend\n\nfunc1:\n    call  func2\n    ret\n\nfunc2:\n    ret\n\nprint:\n    msg 'This program should return null'\n",
     "\n            mov a, 173   ; instruction mov a, 173\n            mov k, 88   ; instruction mov k, 88\n            call func\n            msg 'Random result: ', o\n            end\n            func:\n              cmp a, k\n              jne exit\n              mov o, a\n              add o, k\n              ret\n            ; Do nothing\n            exit:\n              msg 'Do nothing'",
     "\n            mov q, 86   ; instruction mov q, 86\n            mov m, 73   ; instruction mov m, 73\n            call func\n            msg 'Random result: ', g\n            end\n            func:\n              cmp q, m\n              jl exit\n              mov g, q\n              div g, m\n              ret\n            ; Do nothing\n            exit:\n              msg 'Do nothing'",
     "\nmov   a, 11           ; value1\nmov   b, 3            ; value2\ncall  mod_func\nmsg   'mod(', a, ', ', b, ') = ', d        ; output\nend\n\n; Mod function\nmod_func:\n    mov   c, a        ; temp1\n    div   c, b\n    mul   c, b\n    mov   d, a        ; temp2\n    sub   d, c\n    ret\n",
     "\nmov   a, 8            ; value\nmov   b, 0            ; next\nmov   c, 0            ; counter\nmov   d, 0            ; first\nmov   e, 1            ; second\ncall  proc_fib\ncall  print\nend\n\nproc_fib:\n    cmp   c, 2\n    jl    func_0\n    mov   b, d\n    add   b, e\n    mov   d, e\n    mov   e, b\n    inc   c\n    cmp   c, a\n    jle   proc_fib\n    ret\n\nfunc_0:\n    mov   b, c\n    inc   c\n    jmp   proc_fib\n\nprint:\n    msg   'Term ', a, ' of Fibonacci series is: ', b        ; output text\n    ret\n",
     "\nmov   a, 81         ; value1\nmov   b, 153        ; value2\ncall  init\ncall  proc_gcd\ncall  print\nend\n\nproc_gcd:\n    cmp   c, d\n    jne   loop\n    ret\n\nloop:\n    cmp   c, d\n    jg    a_bigger\n    jmp   b_bigger\n\na_bigger:\n    sub   c, d\n    jmp   proc_gcd\n\nb_bigger:\n    sub   d, c\n    jmp   proc_gcd\n\ninit:\n    cmp   a, 0\n    jl    a_abs\n    cmp   b, 0\n    jl    b_abs\n    mov   c, a            ; temp1\n    mov   d, b            ; temp2\n    ret\n\na_abs:\n    mul   a, -1\n    jmp   init\n\nb_abs:\n    mul   b, -1\n    jmp   init\n\nprint:\n    msg   'gcd(', a, ', ', b, ') = ', c\n    ret\n",
     "\nmov   a, 2            ; value1\nmov   b, 10           ; value2\nmov   c, a            ; temp1\nmov   d, b            ; temp2\ncall  proc_func\ncall  print\nend\n\nproc_func:\n    cmp   d, 1\n    je    continue\n    mul   c, a\n    dec   d\n    call  proc_func\n\ncontinue:\n    ret\n\nprint:\n    msg a, '^', b, ' = ', c\n    ret\n"}

\* Operand pairs of every sign, equal and different, zero and the limits.
OperandPairs ==
    {<<"10", "3">>, <<"-10", "3">>, <<"10", "-3">>, <<"-10", "-3">>,
     <<"7", "7">>, <<"3", "10">>, <<"0", "5">>, <<"5", "0">>, <<"5", "z">>,
     <<I64ToString(I64Min), "-1">>, <<I64ToString(I64Max), "2">>,
     <<I64ToString(I64Max), "1">>, <<I64ToString(I64Min), "1">>}

ArithSources ==
    {"mov a, " \o p[1] \o "\nmov b, " \o p[2] \o "\n" \o m \o " a, b\nmsg a, ' ', b\nend" :
        p \in OperandPairs, m \in {"add", "sub", "mul", "div"}}
    \cup {"mov a, " \o p[1] \o "\n" \o m \o " a, " \o p[2] \o "\nmsg a\nend" :
        p \in OperandPairs, m \in {"div", "mov"}}
    \cup {"mov a, " \o v \o "\n" \o m \o " a\nmsg a\nend" :
        v \in {"4", "-1", I64ToString(I64Max), I64ToString(I64Min)},
        m \in {"inc", "dec"}}

JumpMnemonics == {"jmp", "jne", "je", "jge", "jg", "jle", "jl"}

\* A compare, then each jump to a label that exists or not; the jump skips
\* a first msg when it is taken.
JumpSources ==
    {"cmp " \o p[1] \o ", " \o p[2] \o "\n" \o j \o " " \o l
         \o "\nmsg 'fall'\nend\nover:\nmsg 'jump ', " \o p[1] \o "\nend" :
        p \in {<<"1", "2">>, <<"2", "2">>, <<"2", "1">>, <<"-3", "x">>},
        j \in JumpMnemonics \cup {"call"}, l \in {"over", "nowhere"}}
    \cup {j \o " " \o l \o "\nmsg 'fall'\nend\nover:" :
        j \in JumpMnemonics \cup {"call"}, l \in {"over", "nowhere"}}

EdgeSources ==
    {"", "end", "ret", "msg\nend", "msg 'one'\nmsg 'two'\nend", "msg 'a,b'\nend",
     "msg 'a, b, c'\nend", "msg ', '\nend", "msg 'a , b'\nend",
     "mov a, 7\nmsg a, ', ', b, 12, -4\nend",
     "mov a, 7\nmsg a, b, 12, -4, 'x'\nend", "mov 5, 3\nmsg 5, '+', +5\nend", "msg 'only'", "mov a\nend",
     "cmp 1\nend", "l:\njmp l", "call f\nmsg 'back'\nend\nf:\nmsg 'in'\nret",
     "call f\nend\nf:\ncall g\nret\ng:\ncmp 1, 2\njl h\nend\nh:\nret",
     "call f\nf:\nret", "mov a, 1\ncall f\nmsg a\nf:\nend\nend",
     "f:\nmov a, 1\nf:\ninc a\ncmp a, 3\njl f\nmsg a\nend",
     "nop\nfoo bar\ncall x\nend ; done\r\n::x::\nend",
     "mov a, 13\ncall f\nmsg 'depth ', a\nend\nf:\ndec a\ncmp a, 0\nje g\ncall f\ng:\nret"}

\* Lines short of operands, operands that contain their mnemonic, repeated
\* labels, registers named like integers and each way of reaching the end
\* of the program.
ParserSources ==
    {"inc\nend", "dec\nmsg a\nend", "mov\nend", "add a\nend", "jne\nend",
     "cmp 1, 1\njne\nmsg 'on'\nend", "call\nend", "jmp", "mov a,\nmsg a\nend",
     "call callback\nend\ncallback:\nmsg 'in'\nret", "jmp jmp_table\njmp_table:\nend",
     "inc inc_count\nmsg inc_count\nend", "dec decade\nmsg decade\nend",
     "mov a, 3 ; mov b, 4\n  ; only a comment\n\t\nmsg a, b\nend",
     "cmp 1, 2\ncmp 3, 3\njl f\nmsg 'ok'\nend\nf:",
     "jmp s\nf:\nret\ns:\ncall f", "mov 5, 3\nmov a, 5\nadd a, +2\ncmp 5, 3\nmsg a\nend",
     "mov a, 21\nadd a, a\nmsg a\nend", "mov a, 4\nsub a, a\nmul b, a\ndec c\nmsg a, b, c\nend",
     "x:\nmov a, 1\nx:\nx:\ninc a\ncmp a, 3\njne x\nmsg a\nend",
     "mov a, 5\nmsg 'x=', a, ',', a, '\nmsg ', a\nend",
     "msg ''hi'', 'it's', a'b, ''\nend",
     "mov a, 1\nmsg a\nend", "mova, 1\nend ; x", "mova\nend",
     "sub x, " \o I64ToString(I64Min) \o "\nend", "div x, y\nend"}

\* Programs whose control flow comes back to a state it has been in.
LoopSources ==
    {"x:\njmp x",
     "mov a, 1\nloop:\ncmp a, 0\njne loop\nmsg a\nend",
     "top:\ncall f\njmp top\nf:\nret",
     "cmp 1, 1\nl:\nmov a, 2\nje l\nend",
     "mov a, 3\nl:\ndec a\ncmp a, 0\njg l\nmsg 'done ', a\nend"}

\* Jumps on flags a cmp left some instructions before, on operands changed
\* since, and jumps before any cmp.
FlagSources ==
    {"mov a, 1\ncmp a, 2\nmov a, 5\ninc b\njl less\nmsg 'no'\nend\nless:\nmsg 'less ', a\nend",
     "mov a, 4\ncmp a, 4\ncall f\njne no\njle yes\nend\nf:\ndec a\nret\nno:\nend\nyes:\nmsg a\nend",
     "jge on\nend\non:\njl off\njg up\nend\noff:\nend\nup:\nmsg 'no cmp'\nend",
     "cmp 3, 2\ncmp 2, 3\njg no\njge no\nje no\njl yes\nno:\nend\nyes:\njle on\nend\non:\njne out\nout:"}

Sources ==
    TestSources \cup ArithSources \cup JumpSources \cup EdgeSources
        \cup ParserSources \cup PoolSources \cup LoopSources
        \cup FlagSources

(***************************************************************************)
(* The state: the fields of Interpreter and of its Program, the position   *)
(* of Interpreter::interpret, what it returned or how it panicked, the     *)
(* build's overflow checks, and the history the properties speak about.    *)
(***************************************************************************)
VARIABLES
    source,           \* Program::source
    instructions,     \* Program::instructions
    functions,        \* Program::functions, label -> instruction index
    stack,            \* Interpreter::stack, the return addresses
    register,         \* Interpreter::register, name -> i64
    rip,              \* Interpreter::rip
    zf,               \* Interpreter::zf
    cf,               \* Interpreter::cf
    out,              \* Interpreter::out
    pc,               \* "new", "run", "returned" or "panicked"
    result,           \* the Option<String> run returned
    panic,            \* the panic that ended the run, "" when none
    overflow_checks,  \* whether the build panics on arithmetic overflow
    prev,             \* the index of the instruction executed last, -1 at first
    calls,            \* the indices of the calls whose return is pending
    lastMsg,          \* the string the last msg assembled, "" at first
    seen,             \* the machine states an instruction has executed from
    lastCmp           \* the two values the last cmp compared, <<>> at first

program == <<source, instructions, functions, overflow_checks>>

machine == <<stack, register, rip, zf, cf, out>>

vars == <<source, instructions, functions, stack, register, rip, zf, cf, out,
          pc, result, panic, overflow_checks, prev, calls, lastMsg, seen, lastCmp>>

None == [present |-> FALSE, value |-> ""]

Some(s) == [present |-> TRUE, value |-> s]

\* Interpreter::new
Init ==
    /\ source \in Sources
    /\ overflow_checks \in BOOLEAN
    /\ instructions = <<>>
    /\ functions = EmptyMap
    /\ stack = <<>>
    /\ register = EmptyMap
    /\ rip = 0
    /\ zf = 0
    /\ cf = 0
    /\ out = ""
    /\ pc = "new"
    /\ result = None
    /\ panic = ""
    /\ prev = -1
    /\ calls = <<>>
    /\ lastMsg = ""
    /\ seen = {}
    /\ lastCmp = <<>>

(***************************************************************************)
(* Interpreter::interpret: parse, then run.                                *)
(***************************************************************************)
CleanLines == [i \in 1..Len(Lines(source)) |-> CleanLine(Lines(source)[i])]

\* A panic unwinds out of interpret: the interpreter is dropped and no
\* field of it is seen again, so the fields are left as they were.
Panic(message) ==
    /\ pc' = "panicked"
    /\ panic' = message
    /\ UNCHANGED <<program, machine, result, prev, calls, lastMsg, lastCmp, seen>>

\* Program::parse
Parse ==
    /\ pc = "new"
    /\ IF \E i \in 1..Len(CleanLines) : FromPanics(CleanLines[i])
       THEN Panic("index out of bounds")
       ELSE LET instrs == [i \in 1..Len(CleanLines) |-> InstructionFrom(CleanLines[i])]
            IN  /\ instructions' = instrs
                /\ functions' = FindFunctions(instrs, 0, EmptyMap)
                /\ pc' = "run"
                /\ UNCHANGED <<source, overflow_checks, machine, result, panic,
                               prev, calls, lastMsg, lastCmp, seen>>

\* The instruction the loop of run fetches, when get(rip) is Some.
Fetched == instructions[rip + 1]

Fetches(op) ==
    /\ pc = "run"
    /\ rip < Len(instructions)
    /\ Fetched.op = op


\* Mutant of RunOff: the output buffer is returned when the program runs
\* off its end.
RunOff_ReturnsOut ==
    /\ pc = "run"
    /\ rip >= Len(instructions)
    /\ pc' = "returned"
    /\ result' = Some(out)
    /\ UNCHANGED <<program, machine, panic, prev, calls, lastMsg, lastCmp, seen>>

\* instructions.get(rip)? is None: run returns None.
RunOff ==
    /\ pc = "run"
    /\ rip >= Len(instructions)
    /\ pc' = "returned"
    /\ result' = None
    /\ UNCHANGED <<program, machine, panic, prev, calls, lastMsg, lastCmp, seen>>


\* Mutant of constant_or_register: a name never assigned reads as 1.
constant_or_register_Unset1(src) ==
    LET parsed == ParseI64(src)
    IN  IF parsed.ok THEN parsed.val
        ELSE IF src \in DOMAIN register THEN register[src] ELSE 1


\* Mutant of constant_or_register: a register of the token's name is read
\* before the token is parsed.
constant_or_register_RegisterFirst(src) ==
    LET parsed == ParseI64(src)
    IN  IF src \in DOMAIN register THEN register[src]
        ELSE IF parsed.ok THEN parsed.val ELSE 0

\* Interpreter::constant_or_register
constant_or_register(src) ==
    LET parsed == ParseI64(src)
    IN  IF parsed.ok THEN parsed.val
        ELSE IF src \in DOMAIN register THEN register[src] ELSE 0

\* *self.register.entry(dst).or_insert(0): the value the entry holds.
Entry(dst) == IF dst \in DOMAIN register THEN register[dst] ELSE 0

\* A panic of the operator of an arithmetic arm: or_insert(0) has entered
\* dst in the register before the operator panics.
PanicAfterEntry(dst, message) ==
    /\ pc' = "panicked"
    /\ panic' = message
    /\ register' = Insert(register, dst, Entry(dst))
    /\ UNCHANGED <<program, stack, rip, zf, cf, out, result, prev, calls,
                   lastMsg, lastCmp, seen>>

\* The instruction is done and the loop goes on.
Continue ==
    /\ prev' = rip
    /\ seen' = seen \cup {machine}
    /\ UNCHANGED <<program, pc, result, panic>>


\* Mutant of StoreArith: a result of 0 sets the zero flag.
StoreArith_SetsZf(dst, exact, what) ==
    IF ~InRange(exact) /\ overflow_checks
    THEN PanicAfterEntry(dst, "attempt to " \o what \o " with overflow")
    ELSE /\ register' = Insert(register, dst, Wrap(exact))
         /\ rip' = rip + 1
         /\ zf' = IF Wrap(exact) = 0 THEN 1 ELSE zf
         /\ Continue
         /\ UNCHANGED <<stack, cf, out, calls, lastMsg, lastCmp>>

\* Storing the i64 result of an arithmetic operator in dst: a result
\* outside the type panics in a build with overflow checks and wraps in one
\* without; then rip += 1.
StoreArith(dst, exact, what) ==
    IF ~InRange(exact) /\ overflow_checks
    THEN PanicAfterEntry(dst, "attempt to " \o what \o " with overflow")
    ELSE /\ register' = Insert(register, dst, Wrap(exact))
         /\ rip' = rip + 1
         /\ Continue
         /\ UNCHANGED <<stack, zf, cf, out, calls, lastMsg, lastCmp>>

Mov ==
    /\ Fetches("Mov")
    /\ LET dst == Fetched.args[1]
           src_value == constant_or_register(Fetched.args[2])
       IN  /\ register' = Insert(register, dst, src_value)
           /\ rip' = rip + 1
           /\ Continue
           /\ UNCHANGED <<stack, zf, cf, out, calls, lastMsg, lastCmp>>

Inc ==
    /\ Fetches("Inc")
    /\ StoreArith(Fetched.args[1], Entry(Fetched.args[1]) + 1, "add")

Dec ==
    /\ Fetches("Dec")
    /\ StoreArith(Fetched.args[1], Entry(Fetched.args[1]) - 1, "subtract")

Add ==
    /\ Fetches("Add")
    /\ LET src_value == constant_or_register(Fetched.args[2])
       IN  StoreArith(Fetched.args[1], Entry(Fetched.args[1]) + src_value, "add")


\* Mutant of Sub: the destination is subtracted from the source.
Sub_Reversed ==
    /\ Fetches("Sub")
    /\ LET src_value == constant_or_register(Fetched.args[2])
       IN  StoreArith(Fetched.args[1], src_value - Entry(Fetched.args[1]), "subtract")

Sub ==
    /\ Fetches("Sub")
    /\ LET src_value == constant_or_register(Fetched.args[2])
       IN  StoreArith(Fetched.args[1], Entry(Fetched.args[1]) - src_value, "subtract")

Mul ==
    /\ Fetches("Mul")
    /\ LET src_value == constant_or_register(Fetched.args[2])
       IN  StoreArith(Fetched.args[1], Entry(Fetched.args[1]) * src_value, "multiply")


\* Mutant of Div: a zero divisor leaves the destination as it is and the
\* run goes on.
Div_SkipsZero ==
    /\ Fetches("Div")
    /\ LET dst == Fetched.args[1]
           src_value == constant_or_register(Fetched.args[2])
       IN  IF Entry(dst) = I64Min /\ src_value = -1
               THEN PanicAfterEntry(dst, "attempt to divide with overflow")
           ELSE /\ register' = Insert(register, dst,
                        IF src_value = 0 THEN Entry(dst)
                        ELSE TruncDiv(Entry(dst), src_value))
                /\ rip' = rip + 1
                /\ Continue
                /\ UNCHANGED <<stack, zf, cf, out, calls, lastMsg, lastCmp>>

\* The /= of i64: a zero divisor panics, and so does I64Min / -1, in
\* every build.
Div ==
    /\ Fetches("Div")
    /\ LET dst == Fetched.args[1]
           src_value == constant_or_register(Fetched.args[2])
       IN  IF src_value = 0 THEN PanicAfterEntry(dst, "attempt to divide by zero")
           ELSE IF Entry(dst) = I64Min /\ src_value = -1
               THEN PanicAfterEntry(dst, "attempt to divide with overflow")
           ELSE /\ register' = Insert(register, dst, TruncDiv(Entry(dst), src_value))
                /\ rip' = rip + 1
                /\ Continue
                /\ UNCHANGED <<stack, zf, cf, out, calls, lastMsg, lastCmp>>


\* Mutant of ReturnAddress: the call pushes its own index.
ReturnAddress_OwnIndex == rip


\* Mutant of ReturnAddress: the call pushes the index after the next one.
ReturnAddress_SkipsOne == rip + 2

\* The address a call pushes.
ReturnAddress == rip + 1


\* Mutant of JumpTo: a label the table lacks is skipped, as if the jump was
\* not taken.
JumpTo_SkipsMissing(label) ==
    /\ rip' = IF label \in DOMAIN functions THEN functions[label] ELSE rip + 1
    /\ Continue

\* self.rip = *self.program.functions.get(label).unwrap()
JumpTo(label) ==
    IF label \in DOMAIN functions
    THEN /\ rip' = functions[label]
         /\ Continue
    ELSE /\ pc' = "panicked"
         /\ panic' = "called Option::unwrap() on a None value"
         /\ UNCHANGED <<program, rip, result, prev, seen>>

Call ==
    /\ Fetches("Call")
    /\ stack' = Append(stack, ReturnAddress)
    /\ calls' = Append(calls, rip)
    /\ JumpTo(Fetched.args[1])
    /\ UNCHANGED <<register, zf, cf, out, lastMsg, lastCmp>>


\* Mutant of CmpFlags: the carry flag is set whenever the operands differ.
CmpFlags_CarryOnDiffer(dst_value, src_value) ==
    IF dst_value = src_value THEN <<1, 0>> ELSE <<0, 1>>


\* Mutant of CmpFlags: the flags are not reset before they are set.
CmpFlags_NoReset(dst_value, src_value) ==
    IF dst_value = src_value THEN <<1, cf>>
    ELSE IF dst_value < src_value THEN <<zf, 1>>
    ELSE <<zf, cf>>

\* The flags <<zf, cf>> a cmp of the two values leaves.
CmpFlags(dst_value, src_value) ==
    IF dst_value = src_value THEN <<1, 0>>
    ELSE IF dst_value < src_value THEN <<0, 1>>
    ELSE <<0, 0>>

Cmp ==
    /\ Fetches("Cmp")
    /\ LET flags == CmpFlags(constant_or_register(Fetched.args[1]),
                             constant_or_register(Fetched.args[2]))
       IN  /\ zf' = flags[1]
           /\ cf' = flags[2]
    /\ lastCmp' = <<constant_or_register(Fetched.args[1]),
                    constant_or_register(Fetched.args[2])>>
    /\ rip' = rip + 1
    /\ Continue
    /\ UNCHANGED <<stack, register, out, calls, lastMsg>>

\* A jump of the family: to the label when taken, else rip += 1.
Branch(taken) ==
    /\ IF taken THEN JumpTo(Fetched.args[1])
       ELSE /\ rip' = rip + 1
            /\ Continue
    /\ UNCHANGED <<stack, register, zf, cf, out, calls, lastMsg, lastCmp>>


\* Mutant of Jmp: a jump from a machine state the run has been in before
\* ends the run with None.
Jmp_StopsOnRevisit ==
    /\ Fetches("Jmp")
    /\ IF machine \in seen
       THEN /\ pc' = "returned"
            /\ result' = None
            /\ UNCHANGED <<program, machine, panic, prev, calls, lastMsg, lastCmp, seen>>
       ELSE Branch(TRUE)

Jmp == Fetches("Jmp") /\ Branch(TRUE)

Jne == Fetches("Jne") /\ Branch(zf # 1)

Je == Fetches("Je") /\ Branch(zf = 1)


\* Mutant of Jge: the jump needs the zero flag.
Jge_NeedsZero == Fetches("Jge") /\ Branch(zf = 1)

Jge == Fetches("Jge") /\ Branch(zf = 1 \/ cf = 0)


\* Mutant of Jg: the zero flag is not tested.
Jg_IgnoresZero == Fetches("Jg") /\ Branch(cf = 0)

Jg == Fetches("Jg") /\ Branch(zf = 0 /\ cf = 0)

Jle == Fetches("Jle") /\ Branch(cf = 1 \/ zf = 1)

Jl == Fetches("Jl") /\ Branch(cf = 1)


\* Mutant of MsgText: an opening quote gives the space and a closing one
\* the comma.
RECURSIVE MsgText_SpaceOnOpen(_, _, _)
MsgText_SpaceOnOpen(args, k, opened) ==
    IF k > Len(args) THEN ""
    ELSE LET i == args[k]
         IN  IF i = "'"
                 THEN (IF ~opened THEN " " ELSE ",")
                          \o MsgText_SpaceOnOpen(args, k + 1, ~opened)
             ELSE IF Contains(i, "'")
                 THEN TrimMatches(i, "'") \o MsgText_SpaceOnOpen(args, k + 1, opened)
             ELSE I64ToString(constant_or_register(i))
                      \o MsgText_SpaceOnOpen(args, k + 1, opened)

\* The closure of the msg arm on args[k..], with its captured `opened`.
RECURSIVE MsgText(_, _, _)
MsgText(args, k, opened) ==
    IF k > Len(args) THEN ""
    ELSE LET i == args[k]
         IN  IF i = "'"
                 THEN (IF ~opened THEN "," ELSE " ") \o MsgText(args, k + 1, ~opened)
             ELSE IF Contains(i, "'")
                 THEN TrimMatches(i, "'") \o MsgText(args, k + 1, opened)
             ELSE I64ToString(constant_or_register(i)) \o MsgText(args, k + 1, opened)


\* Mutant of MsgOut: the message is appended to the output buffer.
MsgOut_Appends(res) == out \o res

\* self.out = res
MsgOut(res) == res

Msg ==
    /\ Fetches("Msg")
    /\ LET res == MsgText(Fetched.args, 1, FALSE)
       IN  /\ out' = MsgOut(res)
           /\ lastMsg' = res
    /\ rip' = rip + 1
    /\ Continue
    /\ UNCHANGED <<stack, register, zf, cf, calls, lastCmp>>


\* Mutant of Ret: with an empty stack the run returns None instead of
\* panicking.
Ret_ReturnsOnEmpty ==
    /\ Fetches("Ret")
    /\ IF Len(stack) = 0
       THEN /\ pc' = "returned"
            /\ result' = None
            /\ UNCHANGED <<program, machine, panic, prev, calls, lastMsg, lastCmp, seen>>
       ELSE /\ rip' = stack[Len(stack)]
            /\ stack' = SubSeq(stack, 1, Len(stack) - 1)
            /\ calls' = SubSeq(calls, 1, Len(calls) - 1)
            /\ Continue
            /\ UNCHANGED <<register, zf, cf, out, lastMsg, lastCmp>>


\* Mutant of Ret: the return address is read and left on the stack.
Ret_KeepsEntry ==
    /\ Fetches("Ret")
    /\ IF Len(stack) = 0
       THEN Panic("called Option::unwrap() on a None value")
       ELSE /\ rip' = stack[Len(stack)]
            /\ Continue
            /\ UNCHANGED <<stack, calls, register, zf, cf, out, lastMsg, lastCmp>>

Ret ==
    /\ Fetches("Ret")
    /\ IF Len(stack) = 0
       THEN Panic("called Option::unwrap() on a None value")
       ELSE /\ rip' = stack[Len(stack)]
            /\ stack' = SubSeq(stack, 1, Len(stack) - 1)
            /\ calls' = SubSeq(calls, 1, Len(calls) - 1)
            /\ Continue
            /\ UNCHANGED <<register, zf, cf, out, lastMsg, lastCmp>>

\* return Some(self.out.to_owned())
End ==
    /\ Fetches("End")
    /\ pc' = "returned"
    /\ result' = Some(out)
    /\ prev' = rip
    /\ UNCHANGED <<program, machine, panic, calls, lastMsg, lastCmp, seen>>


\* Mutant of FunctionOrNop: a label or a no-op leaves rip where it is.
FunctionOrNop_Stays ==
    /\ \/ Fetches("Function")
       \/ Fetches("Nop")
    /\ rip' = rip
    /\ Continue
    /\ UNCHANGED <<stack, register, zf, cf, out, calls, lastMsg, lastCmp>>

FunctionOrNop ==
    /\ \/ Fetches("Function")
       \/ Fetches("Nop")
    /\ rip' = rip + 1
    /\ Continue
    /\ UNCHANGED <<stack, register, zf, cf, out, calls, lastMsg, lastCmp>>

Next ==
    \/ Parse
    \/ RunOff
    \/ Mov
    \/ Inc
    \/ Dec
    \/ Add
    \/ Sub
    \/ Mul
    \/ Div
    \/ Call
    \/ Cmp
    \/ Jmp
    \/ Jne
    \/ Je
    \/ Jge
    \/ Jg
    \/ Jle
    \/ Jl
    \/ Msg
    \/ Ret
    \/ End
    \/ FunctionOrNop

Spec == Init /\ [][Next]_vars

(***************************************************************************)
(* Properties.                                                             *)
(***************************************************************************)
\* The instruction executed last, when there is one.
Previous == instructions[prev + 1]

Executed(op) == prev >= 0 /\ Previous.op = op

\* A step from a state in which the run has panicked: there is none.
PanicIsFinal == pc = "panicked" => UNCHANGED vars

\* C1: when an end is fetched the run returns at once, and what it returns
\* is present and is the string the last msg executed before it assembled
\* ("" when no msg was executed): nothing of an earlier msg is in it.
C1_EndReturnsLastMsg ==
    [][Fetches("End") =>
          /\ pc' = "returned"
          /\ result'.present
          /\ result'.value = out
          /\ result'.value = lastMsg]_vars

\* C1 witness: a run of two msg and an end has returned the second string.
C1_Witness ==
    /\ source = "msg 'one'\nmsg 'two'\nend"
    /\ pc = "returned"
    /\ Executed("End")
    /\ result = Some("two")

\* C2: a run that returns without having executed an end returns None, and
\* a fetch past the last instruction returns None whatever the output
\* buffer and the call stack hold and whatever end the program contains.
C2_NoEndNoResult ==
    /\ [](pc = "returned" /\ ~Executed("End") => result = None)
    /\ [][pc = "run" /\ rip >= Len(instructions) =>
             pc' = "returned" /\ result' = None]_vars

\* C2 witness: the run has returned None with a message in the output
\* buffer, a return address on the stack and an end that was never reached.
C2_Witness ==
    /\ pc = "returned"
    /\ result = None
    /\ out # ""
    /\ Len(stack) > 0
    /\ ~Executed("End")
    /\ \E i \in 1..Len(instructions) : instructions[i].op = "End"

\* C3: a ret that finds a return address sets rip to the index after the
\* call that pushed it, the innermost call not yet returned from, whatever
\* calls, returns and jumps were executed in between.
C3_RetAfterCall ==
    /\ [](Len(calls) = Len(stack))
    /\ [][Fetches("Ret") /\ Len(stack) > 0 =>
             /\ rip' = calls[Len(calls)] + 1
             /\ instructions[calls[Len(calls)] + 1].op = "Call"
             /\ calls' = SubSeq(calls, 1, Len(calls) - 1)]_vars

\* C3 witness: the ret at index 10, reached by a jump inside the call at
\* index 3 nested in the call at index 0, has returned to index 4.
C3_Witness ==
    /\ source = "call f\nend\nf:\ncall g\nret\ng:\ncmp 1, 2\njl h\nend\nh:\nret"
    /\ pc = "run"
    /\ Executed("Ret")
    /\ prev = 10
    /\ rip = 4
    /\ stack = <<1>>

\* The value an operand token stands for: the integer it spells, else the
\* register of that name, 0 when the register was never assigned.
ValueOf(token) ==
    IF ParseI64(token).ok THEN ParseI64(token).val
    ELSE IF token \in DOMAIN register THEN register[token] ELSE 0

\* r(d): the current value of the register d, 0 if never assigned.
RegisterValue(d) == IF d \in DOMAIN register THEN register[d] ELSE 0

\* The operands of the cmp executed last; cmp changes no register, so they
\* are what the cmp compared.
CmpLeft == ValueOf(Previous.args[1])

CmpRight == ValueOf(Previous.args[2])

AfterCmp == pc = "run" /\ Executed("Cmp")

\* C4 as claimed: after a cmp of different operands exactly one of the two
\* flags is set, after a cmp of equal operands the zero flag alone.
C4_Original ==
    AfterCmp =>
        /\ CmpLeft # CmpRight => ((zf = 1) # (cf = 1))
        /\ CmpLeft = CmpRight => (zf = 1 /\ cf = 0)

\* C4 amended: after a cmp of equal operands the zero flag alone is set;
\* after a cmp whose left operand is less than the right one the carry flag
\* alone; after a cmp whose left operand is greater, neither flag.
C4_Amended ==
    AfterCmp =>
        /\ CmpLeft = CmpRight => (zf = 1 /\ cf = 0)
        /\ CmpLeft < CmpRight => (zf = 0 /\ cf = 1)
        /\ CmpLeft > CmpRight => (zf = 0 /\ cf = 0)

\* C4 witness: a cmp of a greater left operand has left both flags 0.
C4_Witness ==
    /\ AfterCmp
    /\ CmpLeft > CmpRight
    /\ zf = 0
    /\ cf = 0

\* The text between the quotes when the source is  msg '<text>'  followed
\* by a line  end , the text free of quotes, comment signs and line ends.
OneLiteral == SubSeq(source, 6, Len(source) - 5)

IsOneLiteralProgram ==
    /\ Len(source) >= 10
    /\ SubSeq(source, 1, 5) = "msg '"
    /\ SubSeq(source, Len(source) - 4, Len(source)) = "'\nend"
    /\ \A i \in 1..Len(OneLiteral) : At(OneLiteral, i) \notin {"'", ";", "\n", "\r"}

\* C5 as claimed: a quoted literal is reproduced in the output as written
\* between its quotes, commas included: the program  msg '<text>' / end
\* returns <text>.
C5_LiteralPreserved ==
    (IsOneLiteralProgram /\ pc = "returned") => result = Some(OneLiteral)

\* The token without the quotes at its two ends.
StripQuotes(token) ==
    LET inner == {i \in 1..Len(token) : At(token, i) # "'"}
    IN  IF inner = {} THEN "" ELSE SubSeq(token, SetMin(inner), SetMax(inner))

\* Whether the toggle is on when token k of a msg is read: it starts off
\* and each bare quote before k has flipped it.
InsideLiteral(tokens, k) ==
    Cardinality({j \in 1..(k - 1) : tokens[j] = "'"}) % 2 = 1

\* The piece token k of a msg contributes.
Piece(tokens, k) ==
    IF tokens[k] = "'" THEN (IF InsideLiteral(tokens, k) THEN " " ELSE ",")
    ELSE IF \E i \in 1..Len(tokens[k]) : At(tokens[k], i) = "'"
        THEN StripQuotes(tokens[k])
    ELSE I64ToString(ValueOf(tokens[k]))

RECURSIVE Pieces(_, _)
Pieces(tokens, k) ==
    IF k > Len(tokens) THEN "" ELSE Piece(tokens, k) \o Pieces(tokens, k + 1)

\* The pieces of the tokens before token k, concatenated.
RECURSIVE PiecesBefore(_, _)
PiecesBefore(tokens, k) ==
    IF k <= 1 THEN "" ELSE PiecesBefore(tokens, k - 1) \o Piece(tokens, k - 1)

\* A token outside the quoted literals: it has no quote.
OutsideLiterals(token) == \A i \in 1..Len(token) : At(token, i) # "'"

\* C6: a msg renders every token outside the quoted literals as the decimal
\* text of its value when the msg executes (the register's value, 0 for a
\* register never assigned, or the integer the token spells): the output is
\* the pieces of the tokens in order, and where the piece of such a token
\* stands in it stands that text.  The msg changes no register, flag or
\* call-stack entry.
C6_MsgRendersValues ==
    [][Fetches("Msg") =>
          /\ UNCHANGED <<register, zf, cf, stack>>
          /\ out' = Pieces(Fetched.args, 1)
          /\ \A k \in 1..Len(Fetched.args) :
                 OutsideLiterals(Fetched.args[k]) =>
                     LET text == I64ToString(ValueOf(Fetched.args[k]))
                         at == Len(PiecesBefore(Fetched.args, k))
                     IN  SubSeq(out', at + 1, at + Len(text)) = text]_vars

\* C6 witness: a msg with a literal that holds a comma has rendered an
\* assigned register, an unassigned one and two integer literals.
C6_Witness ==
    /\ source = "mov a, 7\nmsg a, ', ', b, 12, -4\nend"
    /\ pc = "run"
    /\ Executed("Msg")
    /\ Previous.args = <<"a", "'", "'", "b", "12", "-4">>
    /\ out = "7, 012-4"
    /\ DOMAIN register = {"a"}

\* The quotient of a by b # 0 rounded toward zero: what is left over is
\* smaller than b in magnitude and, unless 0, of the sign of a.
Quotient(a, b) ==
    CHOOSE q \in -Abs(a)..Abs(a) :
        LET r == a - q * b
        IN  Abs(r) < Abs(b) /\ (r = 0 \/ (r < 0) = (a < 0))

\* C7 as claimed: div dst, src with src not 0 stores in dst the quotient of
\* dst by src rounded toward zero, for operands of every sign.
C7_Original ==
    [][Fetches("Div") /\ ValueOf(Fetched.args[2]) # 0 =>
          /\ pc' = "run"
          /\ Fetched.args[1] \in DOMAIN register'
          /\ register'[Fetched.args[1]]
                 = Quotient(RegisterValue(Fetched.args[1]), ValueOf(Fetched.args[2]))]_vars

DivOverflows ==
    RegisterValue(Fetched.args[1]) = I64Min /\ ValueOf(Fetched.args[2]) = -1

\* C7 amended: div dst, src with src not 0 stores in dst the quotient of dst
\* by src rounded toward zero, for operands of every sign, except that the
\* least i64 divided by -1, whose quotient is no i64, panics.
C7_Amended ==
    [][Fetches("Div") /\ ValueOf(Fetched.args[2]) # 0 =>
          IF DivOverflows THEN pc' = "panicked"
          ELSE /\ pc' = "run"
               /\ Fetched.args[1] \in DOMAIN register'
               /\ register'[Fetched.args[1]]
                      = Quotient(RegisterValue(Fetched.args[1]), ValueOf(Fetched.args[2]))]_vars

\* C7 witness: -10 divided by 3 has given -3.
C7_Witness ==
    /\ source = "mov a, -10\ndiv a, 3\nmsg a\nend"
    /\ pc = "run"
    /\ Executed("Div")
    /\ register["a"] = -3

ConditionalJumps == {"Jne", "Je", "Jge", "Jg", "Jle", "Jl"}

\* Whether the flags satisfy the condition of a conditional jump.
Holds(op) ==
    CASE op = "Jne" -> zf = 0
      [] op = "Je" -> zf = 1
      [] op = "Jge" -> zf = 1 \/ cf = 0
      [] op = "Jg" -> zf = 0 /\ cf = 0
      [] op = "Jle" -> cf = 1 \/ zf = 1
      [] op = "Jl" -> cf = 1

\* The run is about to execute a call or a jump whose label is in no
\* label definition of the program.
FetchesMissing(ops) ==
    /\ pc = "run"
    /\ rip < Len(instructions)
    /\ Fetched.op \in ops
    /\ ~\E i \in 1..Len(instructions) :
           instructions[i] = Instr("Function", <<Fetched.args[1]>>)

\* C8 as claimed: a call, a jmp or a conditional jump whose label is
\* missing panics, in every flag state.
C8_Original ==
    [][FetchesMissing({"Call", "Jmp"} \cup ConditionalJumps) => pc' = "panicked"]_vars

\* C8 amended: a call or a jmp whose label is missing panics, and so does a
\* conditional jump whose condition holds; a conditional jump whose
\* condition does not hold never looks its label up and goes on to the next
\* instruction.  After the panic nothing executes and nothing is returned.
\* The parser never panics over a missing label.
C8_Amended ==
    /\ [][FetchesMissing({"Call", "Jmp"}) => pc' = "panicked"]_vars
    /\ [][FetchesMissing(ConditionalJumps) =>
             IF Holds(Fetched.op) THEN pc' = "panicked"
             ELSE pc' = "run" /\ rip' = rip + 1]_vars
    /\ [][PanicIsFinal]_vars
    /\ [](pc = "panicked" => result = None)
    /\ [][pc = "new" /\ pc' = "panicked" =>
             \E i \in 1..Len(CleanLines) :
                 /\ FirstWord(CleanLines[i]) \in TwoOperand
                 /\ ~Contains(CleanLines[i], ",")]_vars

\* C8 witness: a je with the zero flag set and a missing label has panicked.
C8_Witness ==
    /\ pc = "panicked"
    /\ rip < Len(instructions)
    /\ Fetched = Instr("Je", <<"nowhere">>)
    /\ zf = 1
    /\ "nowhere" \notin DOMAIN functions

\* C9: a ret with an empty call stack panics: the run does not return,
\* with a result or without, and executes nothing more.
C9_RetOnEmptyStackPanics ==
    /\ [][Fetches("Ret") /\ stack = <<>> =>
             pc' = "panicked" /\ result' = None /\ rip' = rip]_vars
    /\ [][pc = "panicked" => pc' = "panicked" /\ UNCHANGED <<result, machine>>]_vars

\* C9 witness: the run has panicked at a ret with the stack empty.
C9_Witness ==
    /\ pc = "panicked"
    /\ rip < Len(instructions)
    /\ Fetched.op = "Ret"
    /\ stack = <<>>
    /\ prev >= 0

\* C10: a div whose source is the literal 0, a register holding 0 or a
\* register never assigned panics: the run does not return and executes
\* nothing more.
C10_DivByZeroPanics ==
    /\ [][Fetches("Div") /\ ValueOf(Fetched.args[2]) = 0 =>
             pc' = "panicked" /\ result' = None /\ rip' = rip]_vars
    /\ [][pc = "panicked" => pc' = "panicked" /\ UNCHANGED <<result, rip, out>>]_vars

\* C10 witness: a div by a register never assigned has panicked.
C10_Witness ==
    /\ pc = "panicked"
    /\ panic = "attempt to divide by zero"
    /\ rip < Len(instructions)
    /\ Fetched.op = "Div"
    /\ ~ParseI64(Fetched.args[2]).ok
    /\ Fetched.args[2] \notin DOMAIN register

Mnemonics == TwoOperand \cup OneOperand \cup NoOperand

\* The operand text of a cleaned line: what follows its first word.
OperandText(line) == Trim(SubSeq(line, Len(FirstWord(line)) + 1, Len(line)))

\* The number of operand tokens a cleaned line gives its opcode.
OperandsGiven(line) ==
    IF OperandText(line) = "" THEN 0 ELSE Len(Split(OperandText(line), ","))

OperandsRequired(word) ==
    IF word \in TwoOperand THEN 2 ELSE IF word \in OneOperand THEN 1 ELSE 0

ShortOfOperands(line) ==
    /\ line # ""
    /\ FirstWord(line) \in Mnemonics
    /\ OperandsGiven(line) < OperandsRequired(FirstWord(line))

\* The cleaned source line of the instruction at index i.
LineOf(i) == CleanLines[i + 1]

\* C11 as claimed: a line that gives its opcode fewer operands than it
\* requires never becomes an instruction that executes normally: the run
\* panics at the latest when it comes to that line.
C11_ShortLineNeverExecutes ==
    ~(prev >= 0 /\ pc # "panicked" /\ ShortOfOperands(LineOf(prev)))

\* A line the parser has no opcode for: empty once cleaned, or with a first
\* word that is no mnemonic (a label definition or an unknown word).
IsUnknownLine(line) ==
    /\ line # ""
    /\ FirstWord(line) \notin Mnemonics
    /\ ~EndsWith(FirstWord(line), ":")

HasNoOpcode(line) == line = "" \/ FirstWord(line) \notin Mnemonics

\* C12: a line whose first word is neither a mnemonic nor a label
\* definition is never rejected by the parser and executes as a no-op, like
\* an empty line, a comment and a label definition: rip advances by 1 and
\* registers, flags, call stack and output buffer stay as they are.
C12_UnknownLineIsNop ==
    /\ [][pc = "new" /\ (\A i \in 1..Len(CleanLines) :
                            ~(FirstWord(CleanLines[i]) \in TwoOperand
                              /\ ~Contains(CleanLines[i], ","))) =>
             pc' = "run" /\ Len(instructions') = Len(CleanLines)]_vars
    /\ [][pc = "run" /\ rip < Len(instructions) /\ HasNoOpcode(LineOf(rip)) =>
             /\ pc' = "run"
             /\ rip' = rip + 1
             /\ UNCHANGED <<register, zf, cf, stack, out>>]_vars

\* C12 witness: the unknown line  foo bar  has executed and the run goes on
\* at the next index.
C12_Witness ==
    /\ pc = "run"
    /\ prev >= 0
    /\ IsUnknownLine(LineOf(prev))
    /\ LineOf(prev) = "foo bar"
    /\ rip = prev + 1

\* C13: cmp x, y leaves zf = 1 exactly when x = y and cf = 1 exactly when
\* x < y, whatever the flags were before; it changes no register, no
\* call-stack entry and not the output and advances rip by 1.  The two
\* flags are never both 1.
C13_CmpSetsFlagsFromValues ==
    /\ [](zf \in {0, 1} /\ cf \in {0, 1} /\ ~(zf = 1 /\ cf = 1))
    /\ [][Fetches("Cmp") =>
             LET x == ValueOf(Fetched.args[1])
                 y == ValueOf(Fetched.args[2])
             IN  /\ zf' = (IF x = y THEN 1 ELSE 0)
                 /\ cf' = (IF x < y THEN 1 ELSE 0)
                 /\ rip' = rip + 1
                 /\ pc' = "run"
                 /\ UNCHANGED <<register, stack, out>>]_vars

\* C13 witness: a cmp of equal operands, executed with the carry flag set
\* by the cmp before it, has left the zero flag alone.
C13_Witness ==
    /\ source = "cmp 1, 2\ncmp 3, 3\njl f\nmsg 'ok'\nend\nf:"
    /\ pc = "run"
    /\ prev = 1
    /\ zf = 1
    /\ cf = 0

\* The indices of the label definitions of a name, each plus 1.
DefinitionsOf(label) ==
    {i \in 1..Len(instructions) : instructions[i] = Instr("Function", <<label>>)}

\* Whether a jump of the family is taken with the flags as they are.
Taken(op) == op = "Jmp" \/ (op \in ConditionalJumps /\ Holds(op))

\* C14: a jump is taken exactly when its flag combination holds (jmp
\* always); taken, it sets rip to the index after the definition of its
\* label, else rip advances by 1; the call stack, the registers, the flags
\* and the output stay as they are.
C14_JumpsTestTheirFlags ==
    [][/\ pc = "run"
       /\ rip < Len(instructions)
       /\ Fetched.op \in {"Jmp"} \cup ConditionalJumps
       /\ (Taken(Fetched.op) => DefinitionsOf(Fetched.args[1]) # {})
       =>
       /\ pc' = "run"
       /\ rip' = IF Taken(Fetched.op)
                 THEN SetMax(DefinitionsOf(Fetched.args[1]))
                 ELSE rip + 1
       /\ UNCHANGED <<stack, register, zf, cf, out>>]_vars

\* C14 witness: a jge with the zero flag set has jumped to the index after
\* its label.
C14_Witness ==
    /\ source = "cmp 2, 2\njge over\nmsg 'fall'\nend\nover:\nmsg 'jump ', 2\nend"
    /\ pc = "run"
    /\ zf = 1
    /\ prev = 1
    /\ rip = 5

\* C15: rip never exceeds the number of instructions, and with rip equal to
\* it the run returns None and does not panic, however rip got there: by
\* advancing, by a jump or a call to a label defined on the last line, or
\* by a ret to the address after a call on the last line.
C15_RipWithinProgram ==
    /\ [](rip >= 0 /\ rip <= Len(instructions))
    /\ [](\A k \in 1..Len(stack) : stack[k] <= Len(instructions))
    /\ [][pc = "run" /\ rip = Len(instructions) =>
             pc' = "returned" /\ ~result'.present /\ panic' = ""]_vars

\* C15 witness: the run has returned None after the ret to the address
\* after the call on the last line.
C15_Witness ==
    /\ source = "jmp s\nf:\nret\ns:\ncall f"
    /\ pc = "returned"
    /\ result = None
    /\ Executed("Ret")
    /\ rip = Len(instructions)
    /\ rip = 5

\* The number of lines of the source: one for each line end, and one for
\* what follows the last line end unless nothing does.
LineCount ==
    IF source = "" THEN 0
    ELSE Cardinality({i \in 1..Len(source) : At(source, i) = "\n"})
             + (IF At(source, Len(source)) = "\n" THEN 0 ELSE 1)

LabelNames == {instructions[i].args[1] :
                  i \in {j \in 1..Len(instructions) : instructions[j].op = "Function"}}

\* C16: once the source is parsed there is one instruction for each source
\* line and the label table maps each name with a label definition, and no
\* other, to the index of its last definition plus 1; a call or a jmp to
\* the name goes there.
C16_LabelTable ==
    /\ [](pc = "run" =>
             /\ Len(instructions) = LineCount
             /\ DOMAIN functions = LabelNames
             /\ \A name \in LabelNames :
                    functions[name] = SetMax(DefinitionsOf(name)))
    /\ [][/\ pc = "run"
          /\ rip < Len(instructions)
          /\ Fetched.op \in {"Call", "Jmp"}
          /\ pc' = "run"
          => rip' = SetMax(DefinitionsOf(Fetched.args[1]))]_vars

\* C16 witness: a jump to the label defined at the indices 0, 2 and 3 has
\* gone to index 4.
C16_Witness ==
    /\ source = "x:\nmov a, 1\nx:\nx:\ninc a\ncmp a, 3\njne x\nmsg a\nend"
    /\ pc = "run"
    /\ functions = [n \in {"x"} |-> 4]
    /\ Executed("Jne")
    /\ rip = 4

\* C17: only a cmp changes the zero flag or the carry flag.
C17_OnlyCmpChangesFlags ==
    [][zf' # zf \/ cf' # cf => Fetches("Cmp")]_vars

\* C17 witness: the carry flag set by a cmp inside two nested calls is
\* still set after a jump and a ret.
C17_Witness ==
    /\ source = "call f\nend\nf:\ncall g\nret\ng:\ncmp 1, 2\njl h\nend\nh:\nret"
    /\ pc = "run"
    /\ Executed("Ret")
    /\ cf = 1
    /\ zf = 0

ArithmeticOps == {"Mov", "Add", "Sub", "Mul", "Div", "Inc", "Dec"}

FetchesArithmetic ==
    pc = "run" /\ rip < Len(instructions) /\ Fetched.op \in ArithmeticOps

DividesByZero == Fetched.op = "Div" /\ ValueOf(Fetched.args[2]) = 0

\* The mathematical result of the fetched arithmetic instruction.
ExactResult ==
    LET d == Fetched.args[1]
    IN  CASE Fetched.op = "Mov" -> ValueOf(Fetched.args[2])
          [] Fetched.op = "Add" -> RegisterValue(d) + ValueOf(Fetched.args[2])
          [] Fetched.op = "Sub" -> RegisterValue(d) - ValueOf(Fetched.args[2])
          [] Fetched.op = "Mul" -> RegisterValue(d) * ValueOf(Fetched.args[2])
          [] Fetched.op = "Div" -> Quotient(RegisterValue(d), ValueOf(Fetched.args[2]))
          [] Fetched.op = "Inc" -> RegisterValue(d) + 1
          [] Fetched.op = "Dec" -> RegisterValue(d) - 1

\* The i64 that differs from x by a multiple of 2^IntBits.
TwosComplement(x) ==
    CHOOSE w \in I64Min..I64Max : (w - x) % (I64Max - I64Min + 1) = 0

\* The step stores value in the destination and does nothing else but
\* advance the pointer by 1.
StoresOnly(value) ==
    /\ pc' = "run"
    /\ rip' = rip + 1
    /\ register' = [n \in DOMAIN register \cup {Fetched.args[1]} |->
                       IF n = Fetched.args[1] THEN value ELSE register[n]]
    /\ UNCHANGED <<zf, cf, stack, out>>

\* C18 as claimed: each of mov, add, sub, mul, div, inc, dec stores the
\* result of its operation on r(d) and v(s) in d, changes no other
\* register, no flag, no call-stack entry and not the output buffer, and
\* advances the pointer by 1.
C18_Original ==
    [][FetchesArithmetic /\ ~DividesByZero => StoresOnly(ExactResult)]_vars

\* C18 amended: the same whenever the result is an i64. A result outside
\* the i64 range of add, sub, mul, inc or dec panics in a build with
\* overflow checks and is stored wrapped to its two's complement in a
\* build without; div by 0 and the least i64 divided by -1 panic in every
\* build; a panic changes no register's value, no flag, stack entry or
\* output, it only leaves a destination never assigned entered with 0.
C18_Amended ==
    [][FetchesArithmetic =>
          IF ~DividesByZero /\ InRange(ExactResult)
              THEN StoresOnly(ExactResult)
          ELSE IF Fetched.op = "Div" \/ overflow_checks
              THEN /\ pc' = "panicked"
                   /\ register' = [n \in DOMAIN register \cup {Fetched.args[1]} |->
                                      RegisterValue(n)]
                   /\ UNCHANGED <<zf, cf, stack, out, rip>>
          ELSE StoresOnly(TwosComplement(ExactResult))]_vars

\* C18 witness: add a, a has doubled a.
C18_Witness ==
    /\ source = "mov a, 21\nadd a, a\nmsg a\nend"
    /\ pc = "run"
    /\ Executed("Add")
    /\ register = [n \in {"a"} |-> 42]
    /\ rip = 2

\* The step leaves the register named by the token as it is: absent if
\* absent, with its value if present.
Untouched(token) ==
    IF token \in DOMAIN register
    THEN token \in DOMAIN register' /\ register'[token] = register[token]
    ELSE token \notin DOMAIN register'

\* C19: a source token that parses as an integer is that integer, also
\* when a register has its name; any other token is the register's value,
\* 0 if never assigned; and resolving creates or changes no register. So
\* mov stores exactly that value and touches no register but its
\* destination, the other arithmetic leaves its source register as it is,
\* cmp compares exactly those values, and cmp and msg touch no register.
C19_OperandResolution ==
    [][/\ Fetches("Mov") =>
              /\ pc' = "run"
              /\ register' = [n \in DOMAIN register \cup {Fetched.args[1]} |->
                                 IF n = Fetched.args[1] THEN ValueOf(Fetched.args[2])
                                 ELSE register[n]]
       /\ (/\ pc = "run"
           /\ rip < Len(instructions)
           /\ Fetched.op \in {"Add", "Sub", "Mul", "Div"}
           /\ Fetched.args[2] # Fetched.args[1]) => Untouched(Fetched.args[2])
       /\ Fetches("Cmp") =>
              /\ UNCHANGED register
              /\ zf' = 1 <=> ValueOf(Fetched.args[1]) = ValueOf(Fetched.args[2])
              /\ cf' = 1 <=> ValueOf(Fetched.args[1]) < ValueOf(Fetched.args[2])
       /\ Fetches("Msg") => UNCHANGED register]_vars

\* C19 witness: with 3 in the register named 5, mov a, 5 and add a, +2 have
\* made a 7 and cmp 5, 3 has found 5 greater than 3.
C19_Witness ==
    /\ source = "mov 5, 3\nmov a, 5\nadd a, +2\ncmp 5, 3\nmsg a\nend"
    /\ pc = "run"
    /\ Executed("Cmp")
    /\ register = [n \in {"5", "a"} |-> IF n = "5" THEN 3 ELSE 7]
    /\ zf = 0
    /\ cf = 0

\* The operand tokens of a cleaned line with the opcode removed once: the
\* text after the first word split at each comma, every piece trimmed.
OperandTokens(line) ==
    LET pieces == Split(OperandText(line), ",")
    IN  [k \in 1..Len(pieces) |-> Trim(pieces[k])]

\* C20 as claimed: the operands of an instruction are the trimmed comma
\* pieces, in order, of its line with the leading opcode removed once, so
\* an operand that contains the mnemonic is bound intact.
C20_OperandsBoundIntact ==
    pc = "run" =>
        \A i \in 1..Len(instructions) :
            LET line == CleanLines[i]
                tokens == OperandTokens(line)
            IN  /\ (line # "" /\ FirstWord(line) \in TwoOperand) =>
                       instructions[i].args = <<tokens[1], tokens[2]>>
                /\ (line # "" /\ FirstWord(line) \in OneOperand) =>
                       instructions[i].args = <<tokens[1]>>
                /\ (line # "" /\ FirstWord(line) = "msg") =>
                       instructions[i].args = tokens

\* C21: a msg sets the output to the left-to-right concatenation of one
\* piece per token, with a toggle that starts off at every msg: a bare
\* quote gives "," when it opens and " " when it closes, a token with a
\* quote gives itself without its leading and trailing quotes, any other
\* token the decimal text of its value.
C21_MsgFoldsTokens ==
    [][Fetches("Msg") =>
          /\ out' = Pieces(Fetched.args, 1)
          /\ pc' = "run"
          /\ rip' = rip + 1]_vars

\* C21 witness: after a msg that left its toggle on, the bare quote of the
\* next msg has opened again and given a comma.
C21_Witness ==
    /\ source = "mov a, 5\nmsg 'x=', a, ',', a, '\nmsg ', a\nend"
    /\ pc = "run"
    /\ Executed("Msg")
    /\ prev = 2
    /\ instructions[2].args = <<"'x='", "a", "'", "'", "a", "'">>
    /\ instructions[3].args = <<"'", "a">>
    /\ out = ",5"

\* The run is about to execute from a machine state (registers, flags,
\* call stack, output, pointer) from which it has executed before.
Revisits == pc = "run" /\ machine \in seen

\* C22: nothing bounds the number of steps: once the run is back in a
\* machine state it has been in, it is for ever at an instruction to
\* execute and never returns a result, present or absent, and never panics.
C22_RevisitRunsForever ==
    [](Revisits =>
           [](/\ pc = "run"
              /\ rip < Len(instructions)
              /\ Fetched.op # "End"
              /\ ~result.present
              /\ panic = ""))

\* C22 witness: the loop whose exit condition never becomes true is back at
\* its cmp with the state it had there before.
C22_Witness ==
    /\ source = "mov a, 1\nloop:\ncmp a, 0\njne loop\nmsg a\nend"
    /\ Revisits
    /\ Executed("Jne")
    /\ rip = 2
    /\ register = [n \in {"a"} |-> 1]

\* The relation a conditional jump names, between the values x and y.
Relation(op, x, y) ==
    CASE op = "Je" -> x = y
      [] op = "Jne" -> x # y
      [] op = "Jg" -> x > y
      [] op = "Jge" -> x >= y
      [] op = "Jl" -> x < y
      [] op = "Jle" -> x <= y

\* Whether the fetched conditional jump is to be taken: by the values of
\* the last cmp, and before any cmp as with both flags 0.
RelationHolds ==
    IF lastCmp = <<>> THEN Fetched.op \in {"Jne", "Jg", "Jge"}
    ELSE Relation(Fetched.op, lastCmp[1], lastCmp[2])

\* C23: a conditional jump is taken exactly when the relation it names
\* holds between the values x and y had when the last cmp x, y executed,
\* whatever has executed since; before any cmp both flags are 0 and jne, jg
\* and jge are taken, je, jl and jle are not.  Taken is to the index the
\* label table gives, not taken is to the next index.
C23_JumpsFollowLastCmp ==
    /\ [](lastCmp = <<>> => zf = 0 /\ cf = 0)
    /\ [][Fetches("Cmp") =>
             lastCmp' = <<ValueOf(Fetched.args[1]), ValueOf(Fetched.args[2])>>]_vars
    /\ [][(/\ pc = "run"
           /\ rip < Len(instructions)
           /\ Fetched.op \in ConditionalJumps
           /\ RelationHolds => Fetched.args[1] \in DOMAIN functions) =>
             /\ pc' = "run"
             /\ rip' = IF RelationHolds THEN functions[Fetched.args[1]] ELSE rip + 1]_vars

\* C23 witness: a jl has jumped on a cmp of 1 with 2 although the register
\* compared has been set to 5 since and another register incremented.
C23_Witness ==
    /\ source = "mov a, 1\ncmp a, 2\nmov a, 5\ninc b\njl less\nmsg 'no'\nend\nless:\nmsg 'less ', a\nend"
    /\ pc = "run"
    /\ Executed("Jl")
    /\ lastCmp = <<1, 2>>
    /\ register["a"] = 5
    /\ rip = 8

\* C24: the stack is empty when the run starts; a call pushes one entry,
\* its own index + 1; a ret pops one entry; nothing else changes the stack;
\* and every entry r of the stack is in 1..n with a call at index r - 1.
C24_StackDiscipline ==
    /\ []((pc = "new" \/ (pc = "run" /\ prev = -1)) => stack = <<>>)
    /\ [][Fetches("Call") => stack' = Append(stack, rip + 1)]_vars
    /\ [][Fetches("Ret") /\ pc' = "run" =>
             /\ Len(stack) > 0
             /\ stack = Append(stack', rip')]_vars
    /\ [][stack' # stack => Fetches("Call") \/ Fetches("Ret")]_vars
    /\ [](\A k \in 1..Len(stack) :
              /\ 1 <= stack[k]
              /\ stack[k] <= Len(instructions)
              /\ instructions[stack[k]].op = "Call")

\* C24 witness: inside two nested calls, after a jump, the stack holds the
\* two return addresses.
C24_Witness ==
    /\ source = "call f\nend\nf:\ncall g\nret\ng:\ncmp 1, 2\njl h\nend\nh:\nret"
    /\ pc = "run"
    /\ Executed("Jl")
    /\ stack = <<1, 4>>
    /\ rip = 10

\* The program has no call, no ret and no jump.
StraightLine ==
    \A i \in 1..Len(instructions) :
        instructions[i].op \notin {"Call", "Ret", "Jmp"} \cup ConditionalJumps

\* The step executes the fetched instruction and goes on at the next index.
StepsOn == rip < Len(instructions) /\ pc' = "run" /\ rip' = rip + 1 /\ prev' = rip

EndsPresent == Fetches("End") /\ pc' = "returned" /\ result'.present

EndsAbsent == rip = Len(instructions) /\ pc' = "returned" /\ ~result'.present

FaultsDividingByZero ==
    Fetches("Div") /\ ValueOf(Fetched.args[2]) = 0 /\ pc' = "panicked"

\* The fetched arithmetic instruction has a result that is no i64 and the
\* step panics: add, sub, mul, inc, dec in a build with overflow checks,
\* the least i64 divided by -1 in every build.
FaultsOverflowing ==
    /\ FetchesArithmetic
    /\ Fetched.op # "Mov"
    /\ ~DividesByZero
    /\ ~InRange(ExactResult)
    /\ Fetched.op = "Div" \/ overflow_checks
    /\ pc' = "panicked"

\* In a program without call, ret and jump the instructions executed are
\* those at the indices 0 .. rip - 1, once each, and rip is at most n: the
\* run has taken rip steps, at most n.
CountsSteps == (pc = "run" /\ StraightLine) => (prev = rip - 1 /\ rip <= Len(instructions))

\* While such a program runs there is a step for it to take: the loop of
\* run never waits.
GoesOn == (pc = "run" /\ StraightLine) => ENABLED Next

\* C25 as claimed: a program of n instructions without call, ret and jump
\* terminates within n steps: it has taken rip steps, at most n, there is
\* always a step to take, and each step increases rip by 1 until an end is
\* fetched (present result), rip reaches n (absent result) or a division by
\* zero faults.
C25_Original ==
    /\ []CountsSteps
    /\ [][pc = "run" /\ StraightLine =>
             StepsOn \/ EndsPresent \/ EndsAbsent \/ FaultsDividingByZero]_vars
    /\ []GoesOn

\* C25 amended: the same, with one more way to terminate: an arithmetic
\* instruction whose result is no i64 faults (add, sub, mul, inc, dec in a
\* build with overflow checks, the least i64 divided by -1 in every build).
C25_Amended ==
    /\ []CountsSteps
    /\ [][pc = "run" /\ StraightLine =>
             \/ StepsOn
             \/ EndsPresent
             \/ EndsAbsent
             \/ FaultsDividingByZero
             \/ FaultsOverflowing]_vars
    /\ []GoesOn

\* C25 witness: a program of six instructions without call, ret and jump
\* has returned at its end, the sixth.
C25_Witness ==
    /\ source = "mov a, 4\nsub a, a\nmul b, a\ndec c\nmsg a, b, c\nend"
    /\ StraightLine
    /\ Len(instructions) = 6
    /\ pc = "returned"
    /\ result = Some("00-1")
    /\ prev = 5
    /\ rip = 5

====
